---- MODULE Spec2Model ----
(***************************************************************************)
(* Model of the credit-assessment wizard: the CreditForm page              *)
(* (frontend/src/pages/CreditForm.jsx), its step components (FileUpload,  *)
(* UserDemographics, LoanHistory, UserBehaviour), the validation engine    *)
(* (frontend/src/utils/validation.js) and the form defaults                *)
(* (frontend/src/utils/formData.js).                                       *)
(*                                                                         *)
(* JavaScript values are tagged records: a string is a sequence of         *)
(* one-character strings, a number is a decimal m / 10^e, and null,        *)
(* undefined, NaN and File objects have their own tags.  React re-renders  *)
(* after every event, so a handler started by a user event reads the       *)
(* current state; the continuation of an async handler keeps the values    *)
(* its closure captured when the handler was started.                      *)
(***************************************************************************)
EXTENDS Integers, Sequences, FiniteSets, TLC

VARIABLES
    currentStep,        \* CreditForm: index of the active step
    showResults,        \* CreditForm: results screen flag
    formData,           \* CreditForm: the form record
    results,            \* CreditForm: stored prediction result, or Null
    feedback,           \* CreditForm: stored feedback text, or Null
    isSubmitting,       \* CreditForm: Submitting flag
    submitError,        \* CreditForm: submit error message, or Null
    stepErrors,         \* CreditForm: error map of the active step
    fileName,           \* FileUpload (mounted instance): name of the chosen file
    isExtracting,       \* FileUpload (mounted instance): extracting flag
    extractionError,    \* FileUpload (mounted instance): error message, or Null
    extractionSuccess,  \* FileUpload (mounted instance): success flag
    extractions,        \* handleFileChange calls suspended at await extractFinancialData
    submissions,        \* handleSubmit calls suspended at await predictCredit / getFeedback
    lastSubmission,     \* the handleSubmit call that resolved last, or Null
    lastEvent,          \* the handler or continuation that ran last
    edits,              \* number of field edits made so far
    ret                 \* value returned by the last direct call of an exported validation function

vars == <<currentStep, showResults, formData, results, feedback, isSubmitting,
          submitError, stepErrors, fileName, isExtracting, extractionError,
          extractionSuccess, extractions, submissions, lastSubmission,
          lastEvent, edits, ret>>

-----------------------------------------------------------------------------
(* Bounds *)

MaxEdits == 6
MaxUploads == 2
MaxSubmissions == 2

-----------------------------------------------------------------------------
(* JavaScript values *)

Null == [t |-> "null"]
Undefined == [t |-> "undefined"]
NaN == [t |-> "NaN"]
Str(s) == [t |-> "string", s |-> s]
Num(m, e) == [t |-> "number", m |-> m, e |-> e]
File(name) == [t |-> "object", file |-> name]
\* a string that is only displayed or passed on (messages, labels, categories)
Text(txt) == [t |-> "text", txt |-> txt]

TypeOf(v) ==
    CASE v.t = "string" -> "string"
      [] v.t = "text" -> "string"
      [] v.t = "number" -> "number"
      [] v.t = "NaN" -> "number"
      [] v.t = "undefined" -> "undefined"
      [] OTHER -> "object"

Whitespace == {" ", "\t", "\n"}

RECURSIVE TrimStart(_)
TrimStart(s) ==
    IF s # << >> /\ Head(s) \in Whitespace THEN TrimStart(Tail(s)) ELSE s

RECURSIVE TrimEnd(_)
TrimEnd(s) ==
    IF s # << >> /\ s[Len(s)] \in Whitespace
    THEN TrimEnd(SubSeq(s, 1, Len(s) - 1))
    ELSE s

Trim(s) == TrimEnd(TrimStart(s))

\* a truthiness under which the empty string counts as a value
Truthy_emptyString(v) ==
    CASE v.t = "string" -> TRUE
      [] v.t = "text" -> TRUE
      [] v.t = "number" -> v.m # 0
      [] v.t = "object" -> TRUE
      [] OTHER -> FALSE

\* JavaScript truthiness, as used by `a || b`
Truthy(v) ==
    CASE v.t = "string" -> v.s # << >>
      [] v.t = "text" -> v.txt # ""
      [] v.t = "number" -> v.m # 0
      [] v.t = "object" -> TRUE
      [] OTHER -> FALSE

\* a ?? b: only null and undefined give way to the default
Or_nullish(a, b) == IF a.t \in {"null", "undefined"} THEN b ELSE a

Or(a, b) == IF Truthy(a) THEN a ELSE b

Range(s) == {s[i] : i \in 1..Len(s)}

-----------------------------------------------------------------------------
(* String literals of the source *)

sEmpty == << >>
sYes == <<"Y", "e", "s">>
sNo == <<"N", "o">>
sNA == <<"N", "/", "A">>
sZero == <<"0">>
sMale == <<"M", "a", "l", "e">>
sFemale == <<"F", "e", "m", "a", "l", "e">>
sEmployed == <<"E", "m", "p", "l", "o", "y", "e", "d">>
sSelfEmployed == <<"S", "e", "l", "f", "-", "e", "m", "p", "l", "o", "y", "e", "d">>
sUnemployed == <<"U", "n", "e", "m", "p", "l", "o", "y", "e", "d">>
sOnTime == <<"O", "n", " ", "T", "i", "m", "e">>
sLate == <<"L", "a", "t", "e">>
sDefaulted == <<"D", "e", "f", "a", "u", "l", "t", "e", "d">>

-----------------------------------------------------------------------------
(* formData.js *)

initialFormData ==
    [ full_name |-> Str(sEmpty),
      age |-> Str(sEmpty),
      gender |-> Str(sEmpty),
      employment_status |-> Str(sEmpty),
      bank_statement |-> Null,
      total_monthly_inflow |-> Str(sEmpty),
      total_monthly_outflow |-> Str(sEmpty),
      transaction_frequency |-> Str(sEmpty),
      salary_payment_detected |-> Str(sEmpty),
      end_of_month_balance |-> Str(sEmpty),
      highest_credit_amount |-> Str(sEmpty),
      highest_debit_amount |-> Str(sEmpty),
      gambling_transactions_count |-> Str(sEmpty),
      loan_related_transactions_count |-> Str(sEmpty),
      previous_loan_taken |-> Str(sEmpty),
      previous_loan_amount |-> Str(sEmpty),
      repayment_status |-> Str(sEmpty),
      missed_payment_count |-> Str(sEmpty),
      airtime_spend_per_month |-> Str(sEmpty),
      data_subscription_spend |-> Str(sEmpty) ]

formSteps == <<"UserDemographics", "FileUpload", "LoanHistory", "UserBehaviour">>

-----------------------------------------------------------------------------
(* validation.js *)

validationRules ==
    [ s \in 0..3 |->
        CASE s = 0 -> [ required |-> <<"age", "gender", "employment_status">> ]
          [] s = 1 -> [ required |-> <<"total_monthly_inflow",
                                       "total_monthly_outflow",
                                       "transaction_frequency",
                                       "salary_payment_detected",
                                       "end_of_month_balance",
                                       "highest_credit_amount",
                                       "highest_debit_amount">> ]
          [] s = 2 -> [ required |-> <<"previous_loan_taken">>,
                        \* Object.entries(conditionalRequired), in order
                        conditionalRequired |->
                            << [ triggerField |-> "previous_loan_taken",
                                 conditions |->
                                    [ tv \in {sYes} |->
                                        <<"previous_loan_amount",
                                          "repayment_status",
                                          "missed_payment_count">> ] ] >> ]
          [] s = 3 -> [ required |-> <<"airtime_spend_per_month",
                                       "data_subscription_spend">> ] ]

fieldLabels ==
    [ age |-> "Age",
      gender |-> "Gender",
      employment_status |-> "Employment Status",
      full_name |-> "Full Name",
      occupation |-> "Occupation",
      state_of_residence |-> "State of Residence",
      total_monthly_inflow |-> "Total Monthly Inflow",
      total_monthly_outflow |-> "Total Monthly Outflow",
      transaction_frequency |-> "Transaction Frequency",
      salary_payment_detected |-> "Salary Payment Detected",
      end_of_month_balance |-> "End of Month Balance",
      highest_credit_amount |-> "Highest Credit Amount",
      highest_debit_amount |-> "Highest Debit Amount",
      gambling_transactions_count |-> "Gambling Transactions",
      loan_related_transactions_count |-> "Loan-Related Transactions",
      previous_loan_taken |-> "Previous Loan Taken",
      previous_loan_amount |-> "Previous Loan Amount",
      repayment_status |-> "Repayment Status",
      missed_payment_count |-> "Missed Payment Count",
      airtime_spend_per_month |-> "Airtime Spend per Month",
      data_subscription_spend |-> "Data Subscription Spend" ]

\* isEmpty written as a falsiness test (`!value`), which also rejects 0
isEmpty_falsy(value) ==
    IF ~Truthy(value) THEN TRUE
    ELSE IF TypeOf(value) = "string" /\ Trim(value.s) = sEmpty THEN TRUE
    ELSE FALSE

\* isEmpty comparing with '' without trimming
isEmpty_noTrim(value) ==
    IF value = Null \/ value = Undefined THEN TRUE
    ELSE IF TypeOf(value) = "string" /\ value.s = sEmpty THEN TRUE
    ELSE IF TypeOf(value) = "number" /\ value = NaN THEN TRUE
    ELSE FALSE

isEmpty(value) ==
    IF value = Null \/ value = Undefined THEN TRUE
    ELSE IF TypeOf(value) = "string" /\ Trim(value.s) = sEmpty THEN TRUE
    ELSE IF TypeOf(value) = "number" /\ value = NaN THEN TRUE
    ELSE FALSE

\* the rule applied whenever the trigger field holds any non-blank value
Lookup_anyValue(conditions, triggerValue) ==
    IF Truthy(triggerValue)
    THEN conditions[CHOOSE key \in DOMAIN conditions : TRUE]
    ELSE Undefined

\* conditions[triggerValue]: the list stored under the property key, or Undefined.
\* The trigger field only ever holds one of the select's option strings, so
\* inherited Object.prototype keys are not looked up.
Lookup(conditions, triggerValue) ==
    IF TypeOf(triggerValue) = "string" /\ triggerValue.s \in DOMAIN conditions
    THEN conditions[triggerValue.s]
    ELSE Undefined

\* the lists selected by the conditionalRequired loop of a step's rules,
\* concatenated in Object.entries order
RECURSIVE ConditionalFields(_, _)
ConditionalFields(entries, data) ==
    IF entries = << >> THEN << >>
    ELSE LET triggerValue == data[Head(entries).triggerField]
             list == Lookup(Head(entries).conditions, triggerValue)
         IN  (IF list # Undefined THEN list ELSE << >>)
                 \o ConditionalFields(Tail(entries), data)

ConditionalEntries(rules) ==
    IF "conditionalRequired" \in DOMAIN rules THEN rules.conditionalRequired ELSE << >>

validateStep(step, data) ==
    LET rules == validationRules[step]
        checked == rules.required \o ConditionalFields(ConditionalEntries(rules), data)
        missing == { field \in Range(checked) : isEmpty(data[field]) }
        errors == [ field \in missing |-> fieldLabels[field] \o " is required" ]
    IN  [ isValid |-> Cardinality(DOMAIN errors) = 0, errors |-> errors ]

getRequiredFields(step, data) ==
    LET rules == validationRules[step]
    IN  rules.required \o ConditionalFields(ConditionalEntries(rules), data)

\* isFieldRequired looking at rules.required only
isFieldRequired_staticOnly(field, step, data) ==
    field \in Range(validationRules[step].required)

isFieldRequired(field, step, data) ==
    field \in Range(getRequiredFields(step, data))

-----------------------------------------------------------------------------
(* Number parsing (parseInt / parseFloat of the JavaScript runtime) *)

DigitVal ==
    [ c \in {"0", "1", "2", "3", "4", "5", "6", "7", "8", "9"} |->
        CASE c = "0" -> 0 [] c = "1" -> 1 [] c = "2" -> 2 [] c = "3" -> 3
          [] c = "4" -> 4 [] c = "5" -> 5 [] c = "6" -> 6 [] c = "7" -> 7
          [] c = "8" -> 8 [] c = "9" -> 9 ]

Digits == DOMAIN DigitVal

RECURSIVE Pow10(_)
Pow10(e) == IF e = 0 THEN 1 ELSE 10 * Pow10(e - 1)

\* canonical form of the decimal m / 10^e
RECURSIVE Normal(_, _)
Normal(m, e) ==
    IF e > 0 /\ m % 10 = 0 THEN Normal(m \div 10, e - 1) ELSE Num(m, e)

\* the longest prefix of s made of digits
RECURSIVE DigitPrefix(_)
DigitPrefix(s) ==
    IF s # << >> /\ Head(s) \in Digits
    THEN <<Head(s)>> \o DigitPrefix(Tail(s))
    ELSE << >>

RECURSIVE DigitsValue(_, _)
DigitsValue(s, acc) ==
    IF s = << >> THEN acc ELSE DigitsValue(Tail(s), 10 * acc + DigitVal[Head(s)])

\* truncation of m / 10^e towards zero
Truncate(m, e) ==
    IF m >= 0 THEN m \div Pow10(e) ELSE -((-m) \div Pow10(e))

\* parseInt(string) with no radix; hexadecimal prefixes are outside the
\* alphabet of the modelled inputs
ParseIntString(str) ==
    LET s0 == TrimStart(str)
        neg == s0 # << >> /\ Head(s0) = "-"
        s1 == IF s0 # << >> /\ Head(s0) \in {"-", "+"} THEN Tail(s0) ELSE s0
        ds == DigitPrefix(s1)
    IN  IF ds = << >> THEN NaN
        ELSE Num((IF neg THEN -1 ELSE 1) * DigitsValue(ds, 0), 0)

\* parseFloat(string); exponents and "Infinity" are outside the alphabet of
\* the modelled inputs
ParseFloatString(str) ==
    LET s0 == TrimStart(str)
        neg == s0 # << >> /\ Head(s0) = "-"
        s1 == IF s0 # << >> /\ Head(s0) \in {"-", "+"} THEN Tail(s0) ELSE s0
        ip == DigitPrefix(s1)
        r1 == SubSeq(s1, Len(ip) + 1, Len(s1))
        fp == IF r1 # << >> /\ Head(r1) = "." THEN DigitPrefix(Tail(r1)) ELSE << >>
    IN  IF ip = << >> /\ fp = << >> THEN NaN
        ELSE Normal((IF neg THEN -1 ELSE 1) * DigitsValue(ip \o fp, 0), Len(fp))

\* parseInt(value): the argument is converted to a string first; a number in
\* plain decimal notation parses to its integer part
parseInt(v) ==
    CASE v.t = "string" -> ParseIntString(v.s)
      [] v.t = "number" -> Num(Truncate(v.m, v.e), 0)
      [] OTHER -> NaN

parseFloat(v) ==
    CASE v.t = "string" -> ParseFloatString(v.s)
      [] v.t = "number" -> v
      [] OTHER -> NaN

-----------------------------------------------------------------------------
(* Inputs: what the user can type or select, and what the services answer *)

sThirty == <<"3", "0">>
sFive == <<"5">>
sName == <<"A", "l">>

Files == {"a.pdf"}

DemographicsFields == {"full_name", "age", "gender", "employment_status"}

FinancialFields ==
    {"total_monthly_inflow", "total_monthly_outflow", "transaction_frequency",
     "salary_payment_detected", "end_of_month_balance", "highest_credit_amount",
     "highest_debit_amount", "gambling_transactions_count",
     "loan_related_transactions_count"}

LoanConditionalFields == {"previous_loan_amount", "repayment_status", "missed_payment_count"}

BehaviourFields == {"airtime_spend_per_month", "data_subscription_spend"}

\* The financial inputs the user types into: a required number input, the
\* select and an optional number input.  All nine inputs call the same
\* handleInputChange; the other six are filled by extraction only.
TypedFinancialFields ==
    {"total_monthly_inflow", "salary_payment_detected", "gambling_transactions_count"}

\* e.target.value of the input or select of a field
InputValues(field) ==
    CASE field \in FinancialFields \ TypedFinancialFields -> {}
      [] field = "full_name" -> {Str(sEmpty), Str(sName)}
      [] field = "age" -> {Str(sEmpty), Str(sThirty)}
      [] field = "gender" -> {Str(sEmpty), Str(sMale)}
      [] field = "employment_status" -> {Str(sEmpty), Str(sEmployed)}
      [] field = "salary_payment_detected" -> {Str(sEmpty), Str(sYes), Str(sNo)}
      [] field = "previous_loan_taken" -> {Str(sEmpty), Str(sYes), Str(sNo)}
      [] field = "repayment_status" -> {Str(sEmpty), Str(sOnTime)}
      [] field = "missed_payment_count" -> {Str(sEmpty), Str(sZero)}
      [] OTHER -> {Str(sEmpty), Str(sFive)}

\* bodies of successful /extract responses: every key present, or some missing
FullPayload ==
    [ f \in FinancialFields |->
        IF f = "salary_payment_detected" THEN Str(sYes) ELSE Num(5, 0) ]

PartialPayload ==
    [ f \in FinancialFields |->
        IF f \in {"total_monthly_inflow", "loan_related_transactions_count"}
        THEN Undefined
        ELSE FullPayload[f] ]

Payloads == {FullPayload, PartialPayload}

\* error.message of a rejected service call
ErrorMessages == {Text(""), Text("Service unavailable")}

\* bodies of successful /predict responses
Responses ==
    { [ loan_defaulted |-> Num(0, 0), credit_score |-> Num(72, 0),
        risk_category |-> Text("Low"), default_probability |-> Num(12, 2) ],
      [ loan_defaulted |-> Num(1, 0), credit_score |-> Num(35, 0),
        risk_category |-> Text("High"), default_probability |-> Num(8, 1) ] }

\* feedbackResponse.feedback of successful /feedback responses
FeedbackTexts == {Text("Keep saving."), Undefined}

-----------------------------------------------------------------------------
(* Rendering of CreditForm *)

\* the results view replaces the form (CreditForm.jsx line 137)
ResultsShown == showResults /\ results # Null

lastStep == Len(formSteps) - 1

\* the step component rendered for given values of the state
Mounted(step, show, res) ==
    IF show /\ res # Null THEN "ResultCard" ELSE formSteps[step + 1]

CurrentStepComponent == Mounted(currentStep, showResults, results)

fileUploadState == <<fileName, isExtracting, extractionError, extractionSuccess>>

\* The state of a FileUpload instance lives as long as the instance is
\* mounted; a suspended handleFileChange of an unmounted instance can no
\* longer change any FileUpload state.
Render(step, show, res, names, extracting, error, success, pending) ==
    IF Mounted(step, show, res) = "FileUpload"
    THEN /\ fileName' = names
         /\ isExtracting' = extracting
         /\ extractionError' = error
         /\ extractionSuccess' = success
         /\ extractions' = pending
    ELSE /\ fileName' = ""
         /\ isExtracting' = FALSE
         /\ extractionError' = Null
         /\ extractionSuccess' = FALSE
         /\ extractions' = [ i \in DOMAIN pending |-> [ pending[i] EXCEPT !.mounted = FALSE ] ]

RenderSame(step, show, res) ==
    Render(step, show, res, fileName, isExtracting, extractionError,
           extractionSuccess, extractions)

\* { ...rec, k1: v1, ... }: the keys of rec and the keys written, the written
\* values taking precedence
Spread(rec, written) ==
    [ f \in DOMAIN rec \cup DOMAIN written |->
        IF f \in DOMAIN written THEN written[f] ELSE rec[f] ]

Remove(seq, i) == SubSeq(seq, 1, i - 1) \o SubSeq(seq, i + 1, Len(seq))

-----------------------------------------------------------------------------
(* Initial state: CreditForm just mounted *)

Init ==
    /\ currentStep = 0
    /\ showResults = FALSE
    /\ formData = initialFormData
    /\ results = Null
    /\ feedback = Null
    /\ isSubmitting = FALSE
    /\ submitError = Null
    /\ stepErrors = << >>
    /\ fileName = ""
    /\ isExtracting = FALSE
    /\ extractionError = Null
    /\ extractionSuccess = FALSE
    /\ extractions = << >>
    /\ submissions = << >>
    /\ lastSubmission = Null
    /\ lastEvent = "mount"
    /\ edits = 0
    /\ ret = Undefined

-----------------------------------------------------------------------------
(* Field edits of the step components *)

\* setFormData({ ...initialFormData, [field]: value })
handleChange_fromInitial(field, value) ==
    /\ formData' = [initialFormData EXCEPT ![field] = value]
    /\ UNCHANGED <<currentStep, showResults, results, feedback, isSubmitting,
                   submitError, stepErrors, fileUploadState, extractions,
                   submissions, lastSubmission, ret>>

\* an edit that also removes the edited field's entry from the step errors
handleChange_clearsError(field, value) ==
    /\ formData' = Spread(formData, [ f \in {field} |-> value ])
    /\ stepErrors' = [ f \in DOMAIN stepErrors \ {field} |-> stepErrors[f] ]
    /\ UNCHANGED <<currentStep, showResults, results, feedback, isSubmitting,
                   submitError, fileUploadState, extractions,
                   submissions, lastSubmission, ret>>

\* setFormData({ ...formData, [field]: value })
handleChange(field, value) ==
    /\ formData' = Spread(formData, [ f \in {field} |-> value ])
    /\ UNCHANGED <<currentStep, showResults, results, feedback, isSubmitting,
                   submitError, stepErrors, fileUploadState, extractions,
                   submissions, lastSubmission, ret>>

\* LoanHistory.handleChange
LoanHistoryHandleChange(field, value) ==
    IF field = "previous_loan_taken" /\ value = Str(sNo)
    THEN /\ formData' = Spread(formData,
                [ f \in {field, "previous_loan_amount", "repayment_status",
                         "missed_payment_count"} |->
                    CASE f = "previous_loan_amount" -> Str(sEmpty)
                      [] f = "repayment_status" -> Str(sNA)
                      [] f = "missed_payment_count" -> Str(sZero)
                      [] OTHER -> value ])
         /\ UNCHANGED <<currentStep, showResults, results, feedback, isSubmitting,
                        submitError, stepErrors, fileUploadState, extractions,
                        submissions, lastSubmission, ret>>
    ELSE handleChange(field, value)

\* the inputs a step component renders
RenderedInputs ==
    CASE CurrentStepComponent = "UserDemographics" -> DemographicsFields
      [] CurrentStepComponent = "FileUpload" -> FinancialFields
      [] CurrentStepComponent = "LoanHistory" ->
            {"previous_loan_taken"} \cup
            (IF formData["previous_loan_taken"] = Str(sYes) THEN LoanConditionalFields ELSE {})
      [] CurrentStepComponent = "UserBehaviour" -> BehaviourFields
      [] OTHER -> {}

\* onChange of an input or select: the user changes the value of a rendered field
Edit ==
    /\ edits < MaxEdits
    /\ \E field \in RenderedInputs :
         \E value \in InputValues(field) :
            /\ value # formData[field]
            /\ IF CurrentStepComponent = "LoanHistory"
               THEN LoanHistoryHandleChange(field, value)
               ELSE handleChange(field, value)
    /\ edits' = edits + 1
    /\ lastEvent' = "edit"

-----------------------------------------------------------------------------
(* Step navigation *)

\* handleNext without the validation gate
handleNext_noValidation ==
    /\ stepErrors' = << >>
    /\ currentStep' = IF currentStep < Len(formSteps) - 1
                      THEN currentStep + 1
                      ELSE currentStep
    /\ RenderSame(currentStep', showResults, results)

\* handleNext that jumps to the last step once the current one is valid
handleNext_toLast ==
    LET v == validateStep(currentStep, formData)
    IN  IF ~v.isValid
        THEN /\ stepErrors' = v.errors
             /\ UNCHANGED <<currentStep, fileUploadState, extractions>>
        ELSE /\ stepErrors' = << >>
             /\ currentStep' = Len(formSteps) - 1
             /\ RenderSame(currentStep', showResults, results)

\* handleNext merging the new errors into the map of the earlier pass
handleNext_mergesErrors ==
    LET v == validateStep(currentStep, formData)
    IN  IF ~v.isValid
        THEN /\ stepErrors' = Spread(stepErrors, v.errors)
             /\ UNCHANGED <<currentStep, fileUploadState, extractions>>
        ELSE /\ stepErrors' = << >>
             /\ currentStep' = IF currentStep < Len(formSteps) - 1
                               THEN currentStep + 1
                               ELSE currentStep
             /\ RenderSame(currentStep', showResults, results)

handleNext ==
    LET v == validateStep(currentStep, formData)
    IN  IF ~v.isValid
        THEN /\ stepErrors' = v.errors
             /\ UNCHANGED <<currentStep, fileUploadState, extractions>>
        ELSE /\ stepErrors' = << >>
             /\ currentStep' = IF currentStep < Len(formSteps) - 1
                               THEN currentStep + 1
                               ELSE currentStep
             /\ RenderSame(currentStep', showResults, results)

\* the Next button is rendered on every step but the last
ClickNext ==
    /\ ~ResultsShown
    /\ currentStep # Len(formSteps) - 1
    /\ handleNext
    /\ lastEvent' = "next"
    /\ UNCHANGED <<showResults, formData, results, feedback, isSubmitting,
                   submitError, submissions, lastSubmission, edits, ret>>

\* handlePrevious gated by validation like handleNext
handlePrevious_validated ==
    LET v == validateStep(currentStep, formData)
    IN  IF ~v.isValid
        THEN /\ stepErrors' = v.errors
             /\ UNCHANGED <<currentStep, fileUploadState, extractions>>
        ELSE /\ stepErrors' = << >>
             /\ currentStep' = IF currentStep > 0 THEN currentStep - 1 ELSE currentStep
             /\ RenderSame(currentStep', showResults, results)

\* handlePrevious without setStepErrors({})
handlePrevious_keepsErrors ==
    /\ stepErrors' = stepErrors
    /\ currentStep' = IF currentStep > 0 THEN currentStep - 1 ELSE currentStep
    /\ RenderSame(currentStep', showResults, results)

handlePrevious ==
    /\ stepErrors' = << >>
    /\ currentStep' = IF currentStep > 0 THEN currentStep - 1 ELSE currentStep
    /\ RenderSame(currentStep', showResults, results)

\* the Previous button is disabled on the first step
ClickPrevious ==
    /\ ~ResultsShown
    /\ currentStep # 0
    /\ handlePrevious
    /\ lastEvent' = "previous"
    /\ UNCHANGED <<showResults, formData, results, feedback, isSubmitting,
                   submitError, submissions, lastSubmission, edits, ret>>

-----------------------------------------------------------------------------
(* Bank statement upload and extraction (FileUpload.handleFileChange) *)

\* handleFileChange without setExtractionSuccess(false)
handleFileChange_keepsSuccess(file) ==
    /\ fileName' = file
    /\ formData' = Spread(formData, [ f \in {"bank_statement"} |-> File(file) ])
    /\ isExtracting' = TRUE
    /\ extractionError' = Null
    /\ extractionSuccess' = extractionSuccess
    /\ extractions' = Append(extractions,
            [file |-> file, mounted |-> TRUE])

\* up to the await: the file is stored and extractFinancialData is called
handleFileChange(file) ==
    /\ fileName' = file
    /\ formData' = Spread(formData, [ f \in {"bank_statement"} |-> File(file) ])
    /\ isExtracting' = TRUE
    /\ extractionError' = Null
    /\ extractionSuccess' = FALSE
    /\ extractions' = Append(extractions,
            [file |-> file, mounted |-> TRUE])

\* onChange of the file input, which is disabled while isExtracting
Upload ==
    /\ CurrentStepComponent = "FileUpload"
    /\ ~isExtracting
    /\ Len(extractions) < MaxUploads
    /\ \E file \in Files : handleFileChange(file)
    /\ lastEvent' = "upload"
    /\ UNCHANGED <<currentStep, showResults, results, feedback, isSubmitting,
                   submitError, stepErrors, submissions, lastSubmission, edits, ret>>

\* a merge that spreads initialFormData instead of prev
mergeExtraction_fromInitial(prev, file, extracted) ==
    [ f \in DOMAIN prev |->
        IF f = "bank_statement" THEN File(file)
        ELSE IF f \in FinancialFields THEN extracted[f]
        ELSE initialFormData[f] ]

\* a merge that writes only the keys the payload holds and drops the others
\* from the record
mergeExtraction_dropsAbsent(prev, file, extracted) ==
    [ f \in { g \in DOMAIN prev :
                g \in FinancialFields => extracted[g] # Undefined } |->
        IF f = "bank_statement" THEN File(file)
        ELSE IF f \in FinancialFields THEN extracted[f]
        ELSE prev[f] ]

\* setFormData(prev => ({ ...prev, bank_statement: file, <the nine fields> }))
mergeExtraction(prev, file, extracted) ==
    Spread(prev,
           [ f \in {"bank_statement"} \cup FinancialFields |->
               IF f = "bank_statement" THEN File(file) ELSE extracted[f] ])

\* extractFinancialData resolved: the rest of the try block, then finally
ExtractionResolved ==
    \E i \in DOMAIN extractions : \E extracted \in Payloads :
        LET call == extractions[i]
        IN  /\ formData' = mergeExtraction(formData, call.file, extracted)
            /\ IF call.mounted
               THEN /\ extractionSuccess' = TRUE
                    /\ isExtracting' = FALSE
                    /\ UNCHANGED <<fileName, extractionError>>
               ELSE UNCHANGED fileUploadState
            /\ extractions' = Remove(extractions, i)
            /\ lastEvent' = "extracted"
            /\ UNCHANGED <<currentStep, showResults, results, feedback, isSubmitting,
                           submitError, stepErrors, submissions, lastSubmission,
                           edits, ret>>

\* a catch block that also blanks the nine financial fields
ExtractionRejected_clearsFields ==
    \E i \in DOMAIN extractions : \E error \in ErrorMessages :
        LET call == extractions[i]
        IN  /\ formData' = [ f \in DOMAIN formData |->
                    IF f \in FinancialFields THEN Str(sEmpty) ELSE formData[f] ]
            /\ IF call.mounted
               THEN /\ extractionError' =
                          Or(error, Text("Failed to extract data. Please fill manually."))
                    /\ isExtracting' = FALSE
                    /\ UNCHANGED <<fileName, extractionSuccess>>
               ELSE UNCHANGED fileUploadState
            /\ extractions' = Remove(extractions, i)
            /\ lastEvent' = "extractionFailed"
            /\ UNCHANGED <<currentStep, showResults, results, feedback,
                           isSubmitting, submitError, stepErrors, submissions,
                           lastSubmission, edits, ret>>

\* extractFinancialData rejected: catch, then finally
ExtractionRejected ==
    \E i \in DOMAIN extractions : \E error \in ErrorMessages :
        LET call == extractions[i]
        IN  /\ IF call.mounted
               THEN /\ extractionError' =
                          Or(error, Text("Failed to extract data. Please fill manually."))
                    /\ isExtracting' = FALSE
                    /\ UNCHANGED <<fileName, extractionSuccess>>
               ELSE UNCHANGED fileUploadState
            /\ extractions' = Remove(extractions, i)
            /\ lastEvent' = "extractionFailed"
            /\ UNCHANGED <<currentStep, showResults, formData, results, feedback,
                           isSubmitting, submitError, stepErrors, submissions,
                           lastSubmission, edits, ret>>

-----------------------------------------------------------------------------
(* Submission (CreditForm.handleSubmit) *)

predictionData(data) ==
    [ age |-> Or(parseInt(data["age"]), Num(0, 0)),
      gender |-> data["gender"],
      employment_status |-> data["employment_status"],
      total_monthly_inflow |-> Or(parseFloat(data["total_monthly_inflow"]), Num(0, 0)),
      total_monthly_outflow |-> Or(parseFloat(data["total_monthly_outflow"]), Num(0, 0)),
      transaction_frequency |-> Or(parseInt(data["transaction_frequency"]), Num(0, 0)),
      salary_payment_detected |-> Or(data["salary_payment_detected"], Str(sNo)),
      end_of_month_balance |-> Or(parseFloat(data["end_of_month_balance"]), Num(0, 0)),
      highest_credit_amount |-> Or(parseFloat(data["highest_credit_amount"]), Num(0, 0)),
      highest_debit_amount |-> Or(parseFloat(data["highest_debit_amount"]), Num(0, 0)),
      gambling_transactions_count |->
          Or(parseInt(data["gambling_transactions_count"]), Num(0, 0)),
      loan_related_transactions_count |->
          Or(parseInt(data["loan_related_transactions_count"]), Num(0, 0)),
      previous_loan_taken |-> Or(data["previous_loan_taken"], Str(sNo)),
      previous_loan_amount |-> Or(parseFloat(data["previous_loan_amount"]), Num(0, 0)),
      repayment_status |-> Or(data["repayment_status"], Str(sNA)),
      missed_payment_count |-> Or(parseInt(data["missed_payment_count"]), Num(0, 0)),
      airtime_spend_per_month |-> Or(parseFloat(data["airtime_spend_per_month"]), Num(0, 0)),
      data_subscription_spend |-> Or(parseFloat(data["data_subscription_spend"]), Num(0, 0)) ]

feedbackData(data, response) ==
    [ name |-> Or(data["full_name"], Str(sEmpty)),
      age |-> Or(parseInt(data["age"]), Num(0, 0)),
      employment_status |-> data["employment_status"],
      total_monthly_inflow |-> Or(parseFloat(data["total_monthly_inflow"]), Num(0, 0)),
      total_monthly_outflow |-> Or(parseFloat(data["total_monthly_outflow"]), Num(0, 0)),
      end_of_month_balance |-> Or(parseFloat(data["end_of_month_balance"]), Num(0, 0)),
      salary_payment_detected |-> Or(data["salary_payment_detected"], Str(sNo)),
      transaction_frequency |-> Or(parseInt(data["transaction_frequency"]), Num(0, 0)),
      gambling_transactions_count |->
          Or(parseInt(data["gambling_transactions_count"]), Num(0, 0)),
      previous_loan_taken |-> Or(data["previous_loan_taken"], Str(sNo)),
      repayment_status |-> Or(data["repayment_status"], Str(sNA)),
      missed_payment_count |-> Or(parseInt(data["missed_payment_count"]), Num(0, 0)),
      credit_score |-> response.credit_score,
      risk_category |-> response.risk_category,
      default_probability |-> response.default_probability ]

\* handleSubmit without the early return after a failed validation
handleSubmit_noReturn ==
    /\ isSubmitting' = TRUE
    /\ submitError' = Null
    /\ stepErrors' = << >>
    /\ submissions' = Append(submissions,
           [ pc |-> "predict",
             formData |-> formData,
             predictionData |-> predictionData(formData),
             response |-> Null,
             feedbackData |-> Null,
             calls |-> <<"predict">> ])

\* up to the first await: validation, the flags, the payload, predictCredit called
\* handleSubmit without setSubmitError(null)
handleSubmit_keepsError ==
    LET v == validateStep(currentStep, formData)
    IN  IF ~v.isValid
        THEN /\ stepErrors' = v.errors
             /\ UNCHANGED <<isSubmitting, submitError, submissions>>
        ELSE /\ isSubmitting' = TRUE
             /\ submitError' = submitError
             /\ stepErrors' = << >>
             /\ submissions' = Append(submissions,
                    [ pc |-> "predict",
                      formData |-> formData,
                      predictionData |-> predictionData(formData),
                      response |-> Null,
                      feedbackData |-> Null,
                      calls |-> <<"predict">> ])

handleSubmit ==
    LET v == validateStep(currentStep, formData)
    IN  IF ~v.isValid
        THEN /\ stepErrors' = v.errors
             /\ UNCHANGED <<isSubmitting, submitError, submissions>>
        ELSE /\ isSubmitting' = TRUE
             /\ submitError' = Null
             /\ stepErrors' = << >>
             /\ submissions' = Append(submissions,
                    [ pc |-> "predict",
                      formData |-> formData,
                      predictionData |-> predictionData(formData),
                      response |-> Null,
                      feedbackData |-> Null,
                      calls |-> <<"predict">> ])

\* the Submit button without disabled={isSubmitting}
ClickSubmit_notDisabled ==
    /\ ~ResultsShown
    /\ currentStep = Len(formSteps) - 1
    /\ Len(submissions) < MaxSubmissions
    /\ handleSubmit
    /\ lastEvent' = "submit"
    /\ UNCHANGED <<currentStep, showResults, formData, results, feedback,
                   fileUploadState, extractions, lastSubmission, edits, ret>>

\* the Submit button rendered on every step
ClickSubmit_anyStep ==
    /\ ~ResultsShown
    /\ ~isSubmitting
    /\ Len(submissions) < MaxSubmissions
    /\ handleSubmit
    /\ lastEvent' = "submit"
    /\ UNCHANGED <<currentStep, showResults, formData, results, feedback,
                   fileUploadState, extractions, lastSubmission, edits, ret>>

\* the Submit button is rendered on the last step, disabled while isSubmitting
ClickSubmit ==
    /\ ~ResultsShown
    /\ currentStep = Len(formSteps) - 1
    /\ ~isSubmitting
    /\ Len(submissions) < MaxSubmissions
    /\ handleSubmit
    /\ lastEvent' = "submit"
    /\ UNCHANGED <<currentStep, showResults, formData, results, feedback,
                   fileUploadState, extractions, lastSubmission, edits, ret>>

\* setShowResults(true) moved up next to setResults, before getFeedback is awaited
PredictResolved_showsEarly ==
    \E i \in DOMAIN submissions : \E response \in Responses :
        LET call == submissions[i]
        IN  /\ call.pc = "predict"
            /\ results' = [ loan_defaulted |-> response.loan_defaulted,
                            credit_score_generated |-> response.credit_score,
                            risk_category |-> response.risk_category,
                            default_probability |-> response.default_probability ]
            /\ showResults' = TRUE
            /\ submissions' = [ submissions EXCEPT ![i] =
                    [ call EXCEPT !.pc = "feedback",
                                  !.response = response,
                                  !.feedbackData = feedbackData(call.formData, response),
                                  !.calls = call.calls \o <<"predictResolved", "feedback">> ] ]
            /\ RenderSame(currentStep, showResults', results')
            /\ lastEvent' = "predicted"
            /\ UNCHANGED <<currentStep, formData, feedback, isSubmitting,
                           submitError, stepErrors, lastSubmission, edits, ret>>

\* feedbackData built from the record as it is when predictCredit resolves
PredictResolved_currentRecord ==
    \E i \in DOMAIN submissions : \E response \in Responses :
        LET call == submissions[i]
        IN  /\ call.pc = "predict"
            /\ results' = [ loan_defaulted |-> response.loan_defaulted,
                            credit_score_generated |-> response.credit_score,
                            risk_category |-> response.risk_category,
                            default_probability |-> response.default_probability ]
            /\ submissions' = [ submissions EXCEPT ![i] =
                    [ call EXCEPT !.pc = "feedback",
                                  !.response = response,
                                  !.feedbackData = feedbackData(formData, response),
                                  !.calls = call.calls \o <<"predictResolved", "feedback">> ] ]
            /\ RenderSame(currentStep, showResults, results')
            /\ lastEvent' = "predicted"
            /\ UNCHANGED <<currentStep, showResults, formData, feedback, isSubmitting,
                           submitError, stepErrors, lastSubmission, edits, ret>>

\* predictCredit resolved: results stored, feedback payload built, getFeedback called
PredictResolved ==
    \E i \in DOMAIN submissions : \E response \in Responses :
        LET call == submissions[i]
        IN  /\ call.pc = "predict"
            /\ results' = [ loan_defaulted |-> response.loan_defaulted,
                            credit_score_generated |-> response.credit_score,
                            risk_category |-> response.risk_category,
                            default_probability |-> response.default_probability ]
            /\ submissions' = [ submissions EXCEPT ![i] =
                    [ call EXCEPT !.pc = "feedback",
                                  !.response = response,
                                  !.feedbackData = feedbackData(call.formData, response),
                                  !.calls = call.calls \o <<"predictResolved", "feedback">> ] ]
            /\ RenderSame(currentStep, showResults, results')
            /\ lastEvent' = "predicted"
            /\ UNCHANGED <<currentStep, showResults, formData, feedback, isSubmitting,
                           submitError, stepErrors, lastSubmission, edits, ret>>

\* a rejected predictCredit caught locally, the handler going on to getFeedback
PredictRejected_thenFeedback ==
    \E i \in DOMAIN submissions :
        LET call == submissions[i]
        IN  /\ call.pc = "predict"
            /\ submissions' = [ submissions EXCEPT ![i] =
                    [ call EXCEPT !.pc = "feedback",
                                  !.calls = call.calls \o <<"predictRejected", "feedback">> ] ]
            /\ lastEvent' = "predictFailed"
            /\ UNCHANGED <<currentStep, showResults, formData, results, feedback,
                           isSubmitting, submitError, stepErrors, fileUploadState,
                           extractions, lastSubmission, edits, ret>>

\* a rejected predictCredit handled without the finally block
PredictRejected_noFinally ==
    \E i \in DOMAIN submissions : \E error \in ErrorMessages :
        LET call == submissions[i]
        IN  /\ call.pc = "predict"
            /\ submitError' = Or(error, Text("Failed to get prediction. Please try again."))
            /\ submissions' = Remove(submissions, i)
            /\ lastSubmission' = [ call EXCEPT !.pc = "failed",
                                                !.calls = Append(call.calls, "predictRejected") ]
            /\ lastEvent' = "predictFailed"
            /\ UNCHANGED <<currentStep, showResults, formData, results, feedback,
                           isSubmitting, stepErrors, fileUploadState, extractions,
                           edits, ret>>

\* an outer catch that also sends the user to the last step
PredictRejected_toLastStep ==
    \E i \in DOMAIN submissions : \E error \in ErrorMessages :
        LET call == submissions[i]
        IN  /\ call.pc = "predict"
            /\ submitError' = Or(error, Text("Failed to get prediction. Please try again."))
            /\ isSubmitting' = FALSE
            /\ currentStep' = Len(formSteps) - 1
            /\ submissions' = Remove(submissions, i)
            /\ lastSubmission' = [ call EXCEPT !.pc = "failed",
                                                !.calls = Append(call.calls, "predictRejected") ]
            /\ RenderSame(currentStep', showResults, results)
            /\ lastEvent' = "predictFailed"
            /\ UNCHANGED <<showResults, formData, results, feedback,
                           stepErrors, edits, ret>>

\* predictCredit rejected: outer catch, then finally
PredictRejected ==
    \E i \in DOMAIN submissions : \E error \in ErrorMessages :
        LET call == submissions[i]
        IN  /\ call.pc = "predict"
            /\ submitError' = Or(error, Text("Failed to get prediction. Please try again."))
            /\ isSubmitting' = FALSE
            /\ submissions' = Remove(submissions, i)
            /\ lastSubmission' = [ call EXCEPT !.pc = "failed",
                                                !.calls = Append(call.calls, "predictRejected") ]
            /\ lastEvent' = "predictFailed"
            /\ UNCHANGED <<currentStep, showResults, formData, results, feedback,
                           stepErrors, fileUploadState, extractions, edits, ret>>

\* getFeedback resolved, with setIsSubmitting(false) left out of the handler
FeedbackResolved_noFinally ==
    \E i \in DOMAIN submissions : \E text \in FeedbackTexts :
        LET call == submissions[i]
        IN  /\ call.pc = "feedback"
            /\ feedback' = text
            /\ showResults' = TRUE
            /\ submissions' = Remove(submissions, i)
            /\ lastSubmission' = [ call EXCEPT !.pc = "done",
                                                !.calls = Append(call.calls, "feedbackResolved") ]
            /\ RenderSame(currentStep, showResults', results)
            /\ lastEvent' = "feedbackReceived"
            /\ UNCHANGED <<currentStep, formData, results, isSubmitting, submitError,
                           stepErrors, edits, ret>>

\* getFeedback resolved: feedback stored, results shown, then finally
FeedbackResolved ==
    \E i \in DOMAIN submissions : \E text \in FeedbackTexts :
        LET call == submissions[i]
        IN  /\ call.pc = "feedback"
            /\ feedback' = text
            /\ showResults' = TRUE
            /\ isSubmitting' = FALSE
            /\ submissions' = Remove(submissions, i)
            /\ lastSubmission' = [ call EXCEPT !.pc = "done",
                                                !.calls = Append(call.calls, "feedbackResolved") ]
            /\ RenderSame(currentStep, showResults', results)
            /\ lastEvent' = "feedbackReceived"
            /\ UNCHANGED <<currentStep, formData, results, submitError, stepErrors,
                           edits, ret>>

\* a rejected getFeedback without the inner try: the outer catch handles it
FeedbackRejected_fatal ==
    \E i \in DOMAIN submissions : \E error \in ErrorMessages :
        LET call == submissions[i]
        IN  /\ call.pc = "feedback"
            /\ submitError' = Or(error, Text("Failed to get prediction. Please try again."))
            /\ isSubmitting' = FALSE
            /\ submissions' = Remove(submissions, i)
            /\ lastSubmission' = [ call EXCEPT !.pc = "done",
                                                !.calls = Append(call.calls, "feedbackRejected") ]
            /\ lastEvent' = "feedbackFailed"
            /\ UNCHANGED <<currentStep, showResults, formData, results, feedback,
                           stepErrors, fileUploadState, extractions, edits, ret>>

\* getFeedback rejected: inner catch, results shown, then finally
FeedbackRejected ==
    \E i \in DOMAIN submissions :
        LET call == submissions[i]
        IN  /\ call.pc = "feedback"
            /\ feedback' = Null
            /\ showResults' = TRUE
            /\ isSubmitting' = FALSE
            /\ submissions' = Remove(submissions, i)
            /\ lastSubmission' = [ call EXCEPT !.pc = "done",
                                                !.calls = Append(call.calls, "feedbackRejected") ]
            /\ RenderSame(currentStep, showResults', results)
            /\ lastEvent' = "feedbackFailed"
            /\ UNCHANGED <<currentStep, formData, results, submitError, stepErrors,
                           edits, ret>>

\* handleNewAssessment without setFeedback(null)
handleNewAssessment_keepsFeedback ==
    /\ showResults' = FALSE
    /\ currentStep' = 0
    /\ formData' = initialFormData
    /\ results' = Null
    /\ feedback' = feedback
    /\ stepErrors' = << >>
    /\ RenderSame(currentStep', showResults', results')

\* handleNewAssessment keeping the uploaded file
handleNewAssessment_keepsFile ==
    /\ showResults' = FALSE
    /\ currentStep' = 0
    /\ formData' = [initialFormData EXCEPT !["bank_statement"] = formData["bank_statement"]]
    /\ results' = Null
    /\ feedback' = Null
    /\ stepErrors' = << >>
    /\ RenderSame(currentStep', showResults', results')

\* handleNewAssessment without setResults(null)
handleNewAssessment_keepsResults ==
    /\ showResults' = FALSE
    /\ currentStep' = 0
    /\ formData' = initialFormData
    /\ results' = results
    /\ feedback' = Null
    /\ stepErrors' = << >>
    /\ RenderSame(currentStep', showResults', results')

handleNewAssessment ==
    /\ showResults' = FALSE
    /\ currentStep' = 0
    /\ formData' = initialFormData
    /\ results' = Null
    /\ feedback' = Null
    /\ stepErrors' = << >>
    /\ RenderSame(currentStep', showResults', results')

\* the New Assessment button of the results view
ClickNewAssessment ==
    /\ ResultsShown
    /\ handleNewAssessment
    /\ lastEvent' = "newAssessment"
    /\ UNCHANGED <<isSubmitting, submitError, submissions, lastSubmission, edits, ret>>

-----------------------------------------------------------------------------
(* The wizard *)

Next ==
    \/ Edit
    \/ ClickNext
    \/ ClickPrevious
    \/ Upload
    \/ ExtractionResolved
    \/ ExtractionRejected
    \/ ClickSubmit
    \/ PredictResolved
    \/ PredictRejected
    \/ FeedbackResolved
    \/ FeedbackRejected
    \/ ClickNewAssessment

Spec == Init /\ [][Next]_vars

\* The wizard with services that answer: a pending predictCredit or
\* getFeedback promise is eventually settled, one way or the other.
PredictSettles == PredictResolved \/ PredictRejected

FeedbackSettles == FeedbackResolved \/ FeedbackRejected

SpecResponsive ==
    Init /\ [][Next]_vars /\ WF_vars(PredictSettles) /\ WF_vars(FeedbackSettles)

-----------------------------------------------------------------------------
(* Direct calls of the exported validation functions on sample records *)

SampleValues ==
    { Str(sEmpty), Str(<<" ">>), Str(<<" ", "\t">>), Str(sZero), Str(sFive),
      Num(0, 0), Num(5, 0), NaN, Null, Undefined }

FilledRecord ==
    [ f \in DOMAIN initialFormData |->
        CASE f = "full_name" -> Str(sName)
          [] f = "age" -> Str(sThirty)
          [] f = "gender" -> Str(sMale)
          [] f = "employment_status" -> Str(sEmployed)
          [] f = "bank_statement" -> File("a.pdf")
          [] f = "salary_payment_detected" -> Str(sYes)
          [] f = "previous_loan_taken" -> Str(sYes)
          [] f = "repayment_status" -> Str(sOnTime)
          [] OTHER -> Str(sFive) ]

\* the fields validateStep can read on a step, the trigger field aside
ProbedFields(step) ==
    CASE step = 0 -> {"age", "gender", "employment_status"}
      [] step = 1 -> {"total_monthly_inflow", "total_monthly_outflow",
                      "transaction_frequency", "salary_payment_detected",
                      "end_of_month_balance", "highest_credit_amount",
                      "highest_debit_amount"}
      [] step = 2 -> LoanConditionalFields
      [] step = 3 -> BehaviourFields

\* a filled record in which the select of previous_loan_taken holds any of
\* its options and some fields of one step hold a sample value
SampleRecords ==
    { [ f \in DOMAIN FilledRecord |->
          IF f = "previous_loan_taken" THEN taken
          ELSE IF f \in probed THEN v
          ELSE FilledRecord[f] ] :
        taken \in InputValues("previous_loan_taken"),
        v \in SampleValues,
        probed \in UNION { SUBSET ProbedFields(step) : step \in 0..3 } }

\* fields asked about with isFieldRequired: every field of the record
QueriedFields == DOMAIN initialFormData

InitValidation ==
    /\ formData \in SampleRecords
    /\ currentStep = 0
    /\ showResults = FALSE
    /\ results = Null
    /\ feedback = Null
    /\ isSubmitting = FALSE
    /\ submitError = Null
    /\ stepErrors = << >>
    /\ fileName = ""
    /\ isExtracting = FALSE
    /\ extractionError = Null
    /\ extractionSuccess = FALSE
    /\ extractions = << >>
    /\ submissions = << >>
    /\ lastSubmission = Null
    /\ lastEvent = "mount"
    /\ edits = 0
    /\ ret = Undefined

\* The functions are pure: one call per sample record shows all they do.
CallValidateStep ==
    /\ ret = Undefined
    /\ \E step \in DOMAIN validationRules :
         ret' = [ fn |-> "validateStep", step |-> step, field |-> "",
                  value |-> validateStep(step, formData) ]
    /\ UNCHANGED <<currentStep, showResults, formData, results, feedback,
                   isSubmitting, submitError, stepErrors, fileUploadState,
                   extractions, submissions, lastSubmission, lastEvent, edits>>

CallGetRequiredFields ==
    /\ ret = Undefined
    /\ \E step \in DOMAIN validationRules :
         ret' = [ fn |-> "getRequiredFields", step |-> step, field |-> "",
                  value |-> getRequiredFields(step, formData) ]
    /\ UNCHANGED <<currentStep, showResults, formData, results, feedback,
                   isSubmitting, submitError, stepErrors, fileUploadState,
                   extractions, submissions, lastSubmission, lastEvent, edits>>

CallIsFieldRequired ==
    /\ ret = Undefined
    /\ \E step \in DOMAIN validationRules : \E field \in QueriedFields :
         ret' = [ fn |-> "isFieldRequired", step |-> step, field |-> field,
                  value |-> isFieldRequired(field, step, formData) ]
    /\ UNCHANGED <<currentStep, showResults, formData, results, feedback,
                   isSubmitting, submitError, stepErrors, fileUploadState,
                   extractions, submissions, lastSubmission, lastEvent, edits>>

NextValidation ==
    \/ CallValidateStep
    \/ CallGetRequiredFields
    \/ CallIsFieldRequired

SpecValidation == InitValidation /\ [][NextValidation]_vars

-----------------------------------------------------------------------------
(* Direct evaluation of the predict payload on sample records *)

\* the fields handleSubmit passes through parseInt or parseFloat
IntegerFields ==
    {"age", "transaction_frequency", "gambling_transactions_count",
     "loan_related_transactions_count", "missed_payment_count"}

DecimalFields ==
    {"total_monthly_inflow", "total_monthly_outflow", "end_of_month_balance",
     "highest_credit_amount", "highest_debit_amount", "previous_loan_amount",
     "airtime_spend_per_month", "data_subscription_spend"}

NumericFields == IntegerFields \cup DecimalFields

\* the fields handleSubmit defaults with || '<option>'
EnumFields == {"salary_payment_detected", "previous_loan_taken", "repayment_status"}

\* stored values that hold no number: blank strings, text, absent values
NonNumericSamples ==
    { Str(sEmpty), Str(<<" ">>), Str(<<"a", "b", "c">>), Str(<<"-">>),
      Str(<<".">>), NaN, Null, Undefined }

\* stored values that hold a number, as a string or as a number
NumericSamples ==
    { Str(sZero), Str(sFive), Str(sThirty), Str(<<"1", ".", "5">>),
      Str(<<"-", "3">>), Str(<<" ", "7">>), Str(<<"5", "a", "b", "c">>),
      Str(<<".", "5">>), Str(<<"0", ".", "0">>),
      Num(0, 0), Num(5, 0), Num(15, 1), Num(-5, 1) }

\* values of an enumerated field: the empty selection, an option of one of
\* the selects, or the absent value a merge can leave behind
EnumSamples ==
    { Str(sEmpty), Str(sYes), Str(sNo), Str(sOnTime), Str(sLate),
      Str(sDefaulted), Str(sNA), Null, Undefined }

\* a filled record with one field, or every field of one kind, replaced by a
\* sample value
NormalizationRecords ==
    { [ f \in DOMAIN FilledRecord |-> IF f \in fs THEN v ELSE FilledRecord[f] ] :
        v \in NonNumericSamples \cup NumericSamples,
        fs \in {{f} : f \in NumericFields} \cup {NumericFields} }
    \cup
    { [ f \in DOMAIN FilledRecord |-> IF f \in fs THEN v ELSE FilledRecord[f] ] :
        v \in EnumSamples,
        fs \in {{f} : f \in EnumFields} \cup {EnumFields} }

InitNormalization ==
    /\ formData \in NormalizationRecords
    /\ currentStep = 0
    /\ showResults = FALSE
    /\ results = Null
    /\ feedback = Null
    /\ isSubmitting = FALSE
    /\ submitError = Null
    /\ stepErrors = << >>
    /\ fileName = ""
    /\ isExtracting = FALSE
    /\ extractionError = Null
    /\ extractionSuccess = FALSE
    /\ extractions = << >>
    /\ submissions = << >>
    /\ lastSubmission = Null
    /\ lastEvent = "mount"
    /\ edits = 0
    /\ ret = Undefined

\* the object literal of handleSubmit, built from the record
BuildPredictionData ==
    /\ ret = Undefined
    /\ ret' = [ fn |-> "predictionData", step |-> 0, field |-> "",
                value |-> predictionData(formData) ]
    /\ UNCHANGED <<currentStep, showResults, formData, results, feedback,
                   isSubmitting, submitError, stepErrors, fileUploadState,
                   extractions, submissions, lastSubmission, lastEvent, edits>>

NextNormalization == BuildPredictionData

SpecNormalization == InitNormalization /\ [][NextNormalization]_vars

-----------------------------------------------------------------------------
(* Properties *)

\* the fields a step requires of a record: its static list and the lists of
\* the rules whose trigger field holds the triggering value
RequiredOn(step, data) ==
    LET rules == validationRules[step]
        entries == Range(ConditionalEntries(rules))
    IN  Range(rules.required) \cup
        { f \in DOMAIN data :
            \E entry \in entries : \E tv \in DOMAIN entry.conditions :
                /\ data[entry.triggerField] = Str(tv)
                /\ f \in Range(entry.conditions[tv]) }

\* empty: null, undefined, NaN, or a string of whitespace only
Blank(v) ==
    \/ v \in {Null, Undefined, NaN}
    \/ /\ v.t = "string"
       /\ \A i \in 1..Len(v.s) : v.s[i] \in Whitespace

Returned(fn) == ret # Undefined /\ ret.fn = fn

\* C1: validateStep returns an error map whose keys are exactly the fields
\* required on the step that hold an empty value, each with the message
\* "<label> is required", and isValid is true iff the map is empty.
C1_ValidateStepExact ==
    Returned("validateStep") =>
        LET expected == { f \in RequiredOn(ret.step, formData) : Blank(formData[f]) }
        IN  /\ DOMAIN ret.value.errors = expected
            /\ \A f \in expected : ret.value.errors[f] = fieldLabels[f] \o " is required"
            /\ ret.value.isValid = (expected = {})

\* validateStep on Loan History with the rule active reported the three
\* conditional fields, and nothing else, as missing
C1_Witness ==
    /\ Returned("validateStep")
    /\ ret.step = 2
    /\ formData["previous_loan_taken"] = Str(sYes)
    /\ DOMAIN ret.value.errors = LoanConditionalFields
    /\ ~ret.value.isValid

\* C2: at most one submission is in flight, and isSubmitting is set while
\* it is; a further click on Submit starts no second predict call.
C2_SingleFlight ==
    /\ Len(submissions) <= 1
    /\ submissions # << >> => isSubmitting

\* a submission is in flight on the last step with a record that would pass
\* validation again
C2_Witness ==
    /\ Len(submissions) = 1
    /\ isSubmitting
    /\ ~ResultsShown
    /\ currentStep = lastStep
    /\ validateStep(currentStep, formData).isValid

Position(seq, x) == { i \in 1..Len(seq) : seq[i] = x }

OrderedCalls(call) ==
    /\ \A i \in Position(call.calls, "feedback") :
          \E j \in Position(call.calls, "predictResolved") : j < i
    /\ Position(call.calls, "predictRejected") # {} => Position(call.calls, "feedback") = {}
    /\ Position(call.calls, "predict") = {1}

\* C3: a submission calls getFeedback only after its predictCredit call
\* resolved, and never after its predictCredit call was rejected.
C3_FeedbackAfterPredict ==
    /\ \A i \in DOMAIN submissions : OrderedCalls(submissions[i])
    /\ lastSubmission # Null => OrderedCalls(lastSubmission)

\* a submission failed at predict and the retry is waiting for its feedback
C3_Witness ==
    /\ lastSubmission # Null
    /\ lastSubmission.pc = "failed"
    /\ lastSubmission.calls = <<"predict", "predictRejected">>
    /\ \E i \in DOMAIN submissions :
          submissions[i].calls = <<"predict", "predictResolved", "feedback">>

\* C4: when getFeedback is rejected the results screen is shown with no
\* submit error, the stored result is the one predictCredit returned and
\* the feedback is null.
C4_FeedbackFailureAbsorbed ==
    lastEvent = "feedbackFailed" =>
        /\ ResultsShown
        /\ submitError = Null
        /\ feedback = Null
        /\ results.credit_score_generated = lastSubmission.response.credit_score
        /\ results.risk_category = lastSubmission.response.risk_category
        /\ results.default_probability = lastSubmission.response.default_probability
        /\ results.loan_defaulted = lastSubmission.response.loan_defaulted

C4_Witness ==
    /\ lastEvent = "feedbackFailed"
    /\ ResultsShown
    /\ lastSubmission.calls = <<"predict", "predictResolved", "feedback", "feedbackRejected">>
    /\ results.risk_category = Text("High")

\* C5: when predictCredit is rejected a non-empty error message is stored,
\* the results screen is not shown, no prediction result is stored and
\* isSubmitting is cleared.
C5_PredictFailure ==
    lastEvent = "predictFailed" =>
        /\ submitError # Null
        /\ Truthy(submitError)
        /\ ~showResults
        /\ results = Null
        /\ ~isSubmitting

C5_Witness ==
    /\ lastEvent = "predictFailed"
    /\ submitError = Text("Failed to get prediction. Please try again.")
    /\ lastSubmission.pc = "failed"

\* C6: a click on Submit whose validation fails starts no collaborator
\* call, does not set isSubmitting and surfaces the error map of that
\* validation as the step errors.
C6_InvalidSubmitBlocked ==
    [][ (ClickSubmit /\ ~validateStep(currentStep, formData).isValid) =>
            /\ submissions' = submissions
            /\ isSubmitting' = isSubmitting
            /\ ~isSubmitting'
            /\ submitError' = submitError
            /\ stepErrors' = validateStep(currentStep, formData).errors ]_vars

C6_Witness ==
    /\ lastEvent = "submit"
    /\ currentStep = lastStep
    /\ stepErrors # << >>
    /\ DOMAIN stepErrors = DOMAIN validateStep(currentStep, formData).errors
    /\ submissions = << >>
    /\ ~isSubmitting

\* C7: Next validates the current step: on failure the step index stays
\* and the step errors become the error map; on success the step errors
\* are cleared and the step index grows by one, except on the last step.
C7_NextGated ==
    [][ ClickNext =>
            LET v == validateStep(currentStep, formData)
            IN  IF ~v.isValid
                THEN /\ currentStep' = currentStep
                     /\ stepErrors' = v.errors
                     /\ stepErrors' # << >>
                ELSE /\ stepErrors' = << >>
                     /\ currentStep' = IF currentStep = lastStep
                                       THEN currentStep
                                       ELSE currentStep + 1 ]_vars

\* Next advanced to Loan History and was then blocked there
C7_Witness ==
    /\ lastEvent = "next"
    /\ currentStep = 2
    /\ "previous_loan_taken" \in DOMAIN stepErrors

\* C8: Previous clears the step errors and decrements the step index
\* unless it is 0, whether or not the current step passes validation.
C8_PreviousUngated ==
    [][ ClickPrevious =>
            /\ stepErrors' = << >>
            /\ currentStep' = IF currentStep = 0 THEN 0 ELSE currentStep - 1
            /\ formData' = formData ]_vars

\* Previous left a step whose required fields are empty
C8_Witness ==
    /\ lastEvent = "previous"
    /\ currentStep < lastStep
    /\ ~validateStep(currentStep + 1, formData).isValid
    /\ stepErrors = << >>

\* C9: when previous_loan_taken is not "Yes", validateStep on Loan History
\* reports none of the three conditional fields and isFieldRequired is
\* false for each of them, whatever they hold; with "No" the step passes.
C9_ConditionalOff ==
    formData["previous_loan_taken"] # Str(sYes) =>
        /\ (Returned("validateStep") /\ ret.step = 2) =>
              /\ DOMAIN ret.value.errors \cap LoanConditionalFields = {}
              /\ formData["previous_loan_taken"] = Str(sNo) => ret.value.isValid
        /\ (Returned("isFieldRequired") /\ ret.field \in LoanConditionalFields) =>
              ret.value = FALSE

\* Loan History passed with "No" while the three fields hold nothing
C9_Witness ==
    /\ formData["previous_loan_taken"] = Str(sNo)
    /\ \A f \in LoanConditionalFields : formData[f] = Str(sEmpty)
    /\ Returned("validateStep")
    /\ ret.step = 2
    /\ ret.value.isValid

\* C10: New Assessment leaves the form record equal to the initial record.
C10_ResetToInitial ==
    [][ ClickNewAssessment => formData' = initialFormData ]_vars

\* New Assessment ran after an upload, edits and a submission
C10_Witness ==
    /\ lastEvent = "newAssessment"
    /\ formData = initialFormData
    /\ lastSubmission # Null
    /\ lastSubmission.formData["bank_statement"] # Null
    /\ lastSubmission.formData # initialFormData

\* C11: after New Assessment the wizard is on step 0 with the results
\* screen off, no stored result or feedback, no step errors and no submit
\* error message.
C11_NewAssessmentClears ==
    lastEvent = "newAssessment" =>
        /\ currentStep = 0
        /\ ~showResults
        /\ ~ResultsShown
        /\ results = Null
        /\ feedback = Null
        /\ stepErrors = << >>
        /\ submitError = Null
        /\ ~isSubmitting

\* New Assessment ran on results that came with a feedback text
C11_Witness ==
    /\ lastEvent = "newAssessment"
    /\ currentStep = 0
    /\ lastSubmission # Null
    /\ lastSubmission.calls = <<"predict", "predictResolved", "feedback", "feedbackResolved">>

C13_SuccessMerges ==
    [][lastEvent' = "extracted" =>
          \E i \in DOMAIN extractions : \E extracted \in Payloads :
              /\ extractions' = Remove(extractions, i)
              /\ \A f \in FinancialFields : formData'[f] = extracted[f]
              /\ formData'["bank_statement"] = File(extractions[i].file)
              /\ \A f \in DOMAIN formData \ (FinancialFields \cup {"bank_statement"}) :
                    formData'[f] = formData[f]]_vars

C13_Witness ==
    /\ lastEvent = "extracted"
    /\ \A f \in FinancialFields : formData[f] = FullPayload[f]
    /\ formData["bank_statement"] = File("a.pdf")
    /\ formData["age"] # Str(sEmpty)
    /\ extractionSuccess

\* C14: when an extraction succeeds, only the financial fields present in the
\* payload are overwritten; a field the payload lacks keeps its prior value.
C14_AbsentFieldsKept ==
    [][lastEvent' = "extracted" =>
          \E i \in DOMAIN extractions : \E extracted \in Payloads :
              /\ extractions' = Remove(extractions, i)
              /\ \A f \in FinancialFields :
                    formData'[f] = IF extracted[f] = Undefined
                                   THEN formData[f] ELSE extracted[f]]_vars

\* C15: at most one extraction call is in flight at any time, also when the
\* user leaves the Financial Data step and returns while a call is pending.
C15_SingleExtraction == Len(extractions) <= 1

\* C16: every numeric field of the predict payload is a number, and a field
\* whose stored value is blank or holds no number is sent as 0, never as a
\* blank or NaN.
C16_NormalizationTotal ==
    Returned("predictionData") =>
        \A f \in NumericFields :
            /\ ret.value[f].t = "number"
            /\ (Blank(formData[f]) \/ formData[f] \in NonNumericSamples) =>
                  ret.value[f] = Num(0, 0)

C16_Witness ==
    /\ Returned("predictionData")
    /\ formData["gambling_transactions_count"] = Str(sEmpty)
    /\ ret.value["gambling_transactions_count"] = Num(0, 0)
    /\ formData["age"] = Str(sThirty)
    /\ ret.value["age"] = Num(30, 0)

\* the default handleSubmit gives each enumerated field
EnumDefault ==
    [ f \in EnumFields |-> IF f = "repayment_status" THEN Str(sNA) ELSE Str(sNo) ]

\* C17: in the predict payload a blank enumerated field is replaced by its
\* default ("No", "No", "N/A"), and a non-blank one is passed unchanged.
C17_EnumDefaults ==
    Returned("predictionData") =>
        \A f \in EnumFields :
            ret.value[f] = IF Blank(formData[f]) THEN EnumDefault[f] ELSE formData[f]

C17_Witness ==
    /\ Returned("predictionData")
    /\ \A f \in EnumFields : formData[f] = Str(sEmpty)
    /\ ret.value["salary_payment_detected"] = Str(sNo)
    /\ ret.value["previous_loan_taken"] = Str(sNo)
    /\ ret.value["repayment_status"] = Str(sNA)

\* C18: the results screen is shown only once the feedback call of the
\* submission that produced the results has resolved, successfully or not;
\* it is never shown while a feedback call is pending.
C18_ResultsAfterFeedback ==
    ResultsShown =>
        /\ \A i \in DOMAIN submissions : submissions[i].pc # "feedback"
        /\ lastSubmission # Null
        /\ lastSubmission.pc = "done"
        /\ \/ lastSubmission.calls =
                 <<"predict", "predictResolved", "feedback", "feedbackResolved">>
           \/ lastSubmission.calls =
                 <<"predict", "predictResolved", "feedback", "feedbackRejected">>
        /\ results.credit_score_generated = lastSubmission.response.credit_score

C18_Witness ==
    /\ ResultsShown
    /\ lastEvent = "feedbackFailed"
    /\ submissions = << >>
    /\ lastSubmission.calls[4] = "feedbackRejected"
    /\ results.credit_score_generated = lastSubmission.response.credit_score

\* C19: when a submission fails at predict, the wizard is on the last step
\* with the advisory message, the Submitting flag is false and Submit can be
\* clicked again.
C19_FailureOnLastStep ==
    lastEvent = "predictFailed" =>
        /\ currentStep = lastStep
        /\ ~ResultsShown
        /\ ~isSubmitting
        /\ submitError # Null

\* C20: every submission that enters Submitting eventually leaves it when
\* the predict and feedback services answer; when the Submitting flag falls
\* the wizard shows the results or holds a submit error message.
C20_SubmittingEnds ==
    /\ isSubmitting ~> ~isSubmitting
    /\ [][(isSubmitting /\ ~isSubmitting') =>
              \/ ResultsShown'
              \/ submitError' # Null /\ Truthy(submitError') /\ ~ResultsShown']_vars

C20_Witness ==
    /\ lastEvent = "feedbackReceived"
    /\ ~isSubmitting
    /\ ResultsShown
    /\ feedback = Text("Keep saving.")
    /\ submitError = Null

\* C21: a predict call is started only by Submit on the last step (index 3):
\* whenever a submission is added, the step index is the last step.
C21_PredictOnLastStep ==
    [][Len(submissions') > Len(submissions) =>
          /\ currentStep = lastStep /\ currentStep' = lastStep
          /\ lastStep = 3
          /\ lastEvent' = "submit"
          /\ submissions'[Len(submissions')].pc = "predict"]_vars

C21_Witness ==
    /\ lastEvent = "submit"
    /\ currentStep = 3
    /\ isSubmitting
    /\ Len(submissions) = 1
    /\ submissions[1].calls = <<"predict">>

\* C22: the step index is always in 0..3, and every transition changes it by
\* at most one, except New Assessment, which sets it to 0.
C22_StepIndexBounded ==
    [][/\ currentStep \in 0..3 /\ currentStep' \in 0..3
       /\ lastStep = 3
       /\ IF lastEvent' = "newAssessment"
          THEN currentStep' = 0
          ELSE currentStep' - currentStep \in {-1, 0, 1}]_vars

C22_Witness ==
    /\ lastEvent = "next"
    /\ currentStep = 3
    /\ stepErrors = << >>

\* C23: a required field holding the number 0 or the string "0" never gets
\* an error, while one holding null, undefined, NaN, the empty string or a
\* whitespace-only string always does.
C23_ZeroIsNotEmpty ==
    Returned("validateStep") =>
        \A f \in RequiredOn(ret.step, formData) :
            /\ formData[f] \in {Num(0, 0), Str(sZero)} =>
                  f \notin DOMAIN ret.value.errors
            /\ formData[f] \in {Null, Undefined, NaN, Str(sEmpty), Str(<<" ">>),
                                Str(<<" ", "\t">>)} =>
                  f \in DOMAIN ret.value.errors

\* the financial step passed with the number 0 in its required fields
C23_Witness ==
    /\ Returned("validateStep")
    /\ ret.step = 1
    /\ formData["total_monthly_inflow"] = Num(0, 0)
    /\ formData["end_of_month_balance"] = Num(0, 0)
    /\ ret.value.isValid

\* C24 as stated: every field edit, edits of previous_loan_taken included,
\* changes the edited field and leaves every other field of the record as
\* it was.
C24_EditChangesOneField ==
    [][lastEvent' = "edit" =>
          \E field \in RenderedInputs :
              \A g \in DOMAIN formData \ {field} : formData'[g] = formData[g]]_vars

\* what LoanHistory.handleChange writes next to previous_loan_taken = "No"
LoanHistoryReset ==
    [ f \in LoanConditionalFields |->
        CASE f = "previous_loan_amount" -> Str(sEmpty)
          [] f = "repayment_status" -> Str(sNA)
          [] f = "missed_payment_count" -> Str(sZero) ]

\* C24: a field edit replaces the edited field with the entered value and
\* leaves every other field unchanged, except that selecting "No" for
\* previous_loan_taken also sets previous_loan_amount to "", repayment_status
\* to "N/A" and missed_payment_count to "0"; the key set stays the same.
C24_EditFrame ==
    [][lastEvent' = "edit" =>
          \E field \in RenderedInputs :
              /\ formData'[field] \in InputValues(field)
              /\ formData'[field] # formData[field]
              /\ DOMAIN formData' = DOMAIN formData
              /\ \A g \in DOMAIN formData \ {field} :
                    formData'[g] =
                        IF /\ field = "previous_loan_taken"
                           /\ formData'[field] = Str(sNo)
                           /\ g \in LoanConditionalFields
                        THEN LoanHistoryReset[g]
                        ELSE formData[g]]_vars

\* "No" was selected on Loan History: the three dependent fields hold their
\* reset values and the demographics are untouched
C24_Witness ==
    /\ lastEvent = "edit"
    /\ formData["previous_loan_taken"] = Str(sNo)
    /\ formData["previous_loan_amount"] = Str(sEmpty)
    /\ formData["repayment_status"] = Str(sNA)
    /\ formData["missed_payment_count"] = Str(sZero)
    /\ formData["age"] = Str(sThirty)

\* C25: in every reachable state the keys of the form record are exactly the
\* keys of the initial record.
C25_KeySetFixed == DOMAIN formData = DOMAIN initialFormData

\* the record after edits, a loan-history reset, an upload and a merge of a
\* payload that lacks two keys
C25_Witness ==
    /\ DOMAIN formData = DOMAIN initialFormData
    /\ formData["total_monthly_inflow"] = Undefined
    /\ formData["bank_statement"] = File("a.pdf")
    /\ formData["previous_loan_taken"] = Str(sNo)
    /\ formData["repayment_status"] = Str(sNA)

\* C26: after every validation pass (Next or Submit) the step error map is
\* exactly the map validateStep computes from the current record for the
\* current step, which is empty when the step passed; no entry of an earlier
\* pass survives.
C26_ErrorsRebuilt ==
    [][lastEvent' \in {"next", "submit"} =>
          LET v == validateStep(currentStep, formData)
          IN  /\ formData' = formData
              /\ DOMAIN stepErrors' = DOMAIN v.errors
              /\ \A f \in DOMAIN v.errors : stepErrors'[f] = v.errors[f]
              /\ v.isValid => stepErrors' = << >>
              /\ DOMAIN stepErrors' =
                    { f \in RequiredOn(currentStep, formData) : Blank(formData[f]) }]_vars

\* a second Next on step 0 after the age was filled in: the map names the
\* two fields still empty and no longer the age
C26_Witness ==
    /\ lastEvent = "next"
    /\ currentStep = 0
    /\ formData["age"] = Str(sThirty)
    /\ DOMAIN stepErrors = {"gender", "employment_status"}

\* C27: isFieldRequired(field, step, record) is true iff the field is in the
\* step's required list or in the list of a conditional rule whose trigger
\* field holds the triggering value, and it agrees with validateStep: a field
\* gets an error exactly when isFieldRequired holds and its value is empty.
C27_RequiredAgrees ==
    /\ Returned("isFieldRequired") =>
          /\ ret.value = (ret.field \in RequiredOn(ret.step, formData))
          /\ ret.field \in DOMAIN validateStep(ret.step, formData).errors
                <=> (ret.value /\ Blank(formData[ret.field]))
    /\ Returned("validateStep") =>
          \A f \in QueriedFields :
              f \in DOMAIN ret.value.errors
                <=> (isFieldRequired(f, ret.step, formData) /\ Blank(formData[f]))

\* a conditional field reported as required on Loan History while the
\* trigger holds "Yes", and reported missing by validateStep
C27_Witness ==
    /\ Returned("isFieldRequired")
    /\ ret.step = 2
    /\ ret.field = "repayment_status"
    /\ ret.value = TRUE
    /\ formData["previous_loan_taken"] = Str(sYes)
    /\ Blank(formData["repayment_status"])
    /\ "repayment_status" \in DOMAIN validateStep(2, formData).errors

\* the fields the feedback payload shares with the predict payload
SharedPayloadFields ==
    {"age", "employment_status", "total_monthly_inflow", "total_monthly_outflow",
     "end_of_month_balance", "salary_payment_detected", "transaction_frequency",
     "gambling_transactions_count", "previous_loan_taken", "repayment_status",
     "missed_payment_count"}

\* the feedback request of a submission matches its predict request and response
FeedbackMatches(call) ==
    "feedback" \in Range(call.calls) =>
        /\ call.feedbackData.credit_score = call.response.credit_score
        /\ call.feedbackData.risk_category = call.response.risk_category
        /\ call.feedbackData.default_probability = call.response.default_probability
        /\ \A f \in SharedPayloadFields : call.feedbackData[f] = call.predictionData[f]
        /\ call.predictionData = predictionData(call.formData)
        /\ call.feedbackData.name = Or(call.formData["full_name"], Str(sEmpty))

\* C28: the feedback request of a submission carries the score, risk
\* category and default probability of that submission's predict response,
\* and its applicant fields come from the record snapshot the predict payload
\* was built from, whatever happened to the record while predict was pending.
C28_FeedbackFromSnapshot ==
    /\ \A i \in DOMAIN submissions : FeedbackMatches(submissions[i])
    /\ lastSubmission # Null => FeedbackMatches(lastSubmission)

\* the feedback call is pending for a snapshot that differs from the current
\* record in a field both payloads carry
C28_Witness ==
    \E i \in DOMAIN submissions :
        /\ submissions[i].pc = "feedback"
        /\ \E f \in SharedPayloadFields \cap DOMAIN formData :
              formData[f] # submissions[i].formData[f]
        /\ feedbackData(formData, submissions[i].response) # submissions[i].feedbackData

\* C29: the record created by New Assessment stays at its initial defaults
\* until the user edits a field or uploads a file again; an extraction that
\* was started before New Assessment and completes afterwards writes nothing
\* into it.  (bank_statement is non-null from the first upload on, so a
\* record equal to initialFormData with an extraction pending is one that New
\* Assessment created.)
C29_NewRecordIndependent ==
    [][(formData = initialFormData /\ extractions # << >>
          /\ lastEvent' \notin {"edit", "upload"}) =>
              formData' = initialFormData]_vars

\* C30: editing a field changes neither the step error map nor the step
\* index; the errors of a failed Next or Submit stay as surfaced until the
\* next Next, Previous, Submit or New Assessment.
C30_EditKeepsErrors ==
    [][/\ lastEvent' = "edit" =>
              stepErrors' = stepErrors /\ currentStep' = currentStep
       /\ lastEvent' \notin {"next", "previous", "submit", "newAssessment"} =>
              stepErrors' = stepErrors]_vars

\* the age was filled in after a failed Next and its error is still shown
C30_Witness ==
    /\ lastEvent = "edit"
    /\ currentStep = 0
    /\ formData["age"] = Str(sThirty)
    /\ "age" \in DOMAIN stepErrors
    /\ stepErrors["age"] = fieldLabels["age"] \o " is required"

\* C31: whenever a predict call is started the record passes validateStep
\* for every step 0..3, not only for the last one.
C31_AllStepsValidAtSubmit ==
    [][Len(submissions') > Len(submissions) =>
          \A step \in DOMAIN validationRules : validateStep(step, formData).isValid]_vars

\* the options of the repayment_status select, the placeholder aside
RepaymentOptions == {Str(sOnTime), Str(sLate), Str(sDefaulted)}

\* C32: selecting "No" for previous_loan_taken resets the three dependent
\* fields in the same update, and whenever Loan History validation passes
\* with previous_loan_taken = "Yes" the repayment_status is one of "On Time",
\* "Late", "Defaulted", never the reset value "N/A".
C32_RepaymentStatusSelectable ==
    [][/\ (lastEvent' = "edit" /\ formData["previous_loan_taken"] # Str(sNo)
             /\ formData'["previous_loan_taken"] = Str(sNo)) =>
              \A f \in LoanConditionalFields : formData'[f] = LoanHistoryReset[f]
       /\ (lastEvent' = "next" /\ currentStep = 2 /\ currentStep' = 3
             /\ formData["previous_loan_taken"] = Str(sYes)) =>
              formData["repayment_status"] \in RepaymentOptions]_vars

\* C33: the results flag is set only when a prediction result is stored, and
\* a stored result without the results flag occurs only while a submission
\* is awaiting its feedback call.
C33_ResultsConsistent ==
    /\ showResults => results # Null
    /\ (results # Null /\ ~showResults) =>
          /\ isSubmitting
          /\ \E i \in DOMAIN submissions : submissions[i].pc = "feedback"

C33_Witness ==
    /\ results # Null
    /\ ~showResults
    /\ lastEvent = "predicted"
    /\ Len(submissions) = 1
    /\ submissions[1].pc = "feedback"

\* C34: a submit error message and the results screen never coexist:
\* whenever the results screen is shown, or flagged, the submit error is null.
C34_NoErrorWithResults ==
    (showResults \/ ResultsShown) => submitError = Null

\* results shown by a completed submission, with no submit error
C34_Witness ==
    /\ ResultsShown
    /\ submitError = Null
    /\ ~isSubmitting
    /\ lastSubmission # Null
    /\ lastSubmission.pc = "done"
    /\ Len(submissions) = 0
    /\ lastEvent \in {"feedbackReceived", "feedbackFailed"}

\* the fields a step can require: its static list and the lists of all its
\* conditional rules
PossiblyRequired(step) ==
    LET rules == validationRules[step]
        entries == Range(ConditionalEntries(rules))
    IN  Range(rules.required) \cup
        UNION { UNION { Range(entry.conditions[tv]) : tv \in DOMAIN entry.conditions } :
                  entry \in entries }

\* C35: every key of the step error map is a field the current step can
\* require; errors of one step are never shown on another.
C35_ErrorsOfCurrentStep ==
    DOMAIN stepErrors \subseteq PossiblyRequired(currentStep)

\* errors of the conditional fields shown on Loan History
C35_Witness ==
    /\ currentStep = 2
    /\ stepErrors # << >>
    /\ DOMAIN stepErrors \subseteq LoanConditionalFields
    /\ lastEvent = "next"

\* the events of the submission pipeline
PipelineEvents ==
    {"submit", "predicted", "predictFailed", "feedbackReceived", "feedbackFailed"}

\* C36: no step of the submission pipeline, from Submit to its resolution,
\* changes a field of the form record or the step index; the payloads are
\* built next to the record, which the submission keeps as it read it.
C36_PipelineReadOnly ==
    [][lastEvent' \in PipelineEvents =>
          /\ formData' = formData
          /\ currentStep' = currentStep
          /\ (lastEvent' = "submit" /\ Len(submissions') > Len(submissions)) =>
                submissions'[Len(submissions')].formData = formData']_vars

\* a submission resolved after the user had gone back a step: the step index
\* and the record are what they were
C36_Witness ==
    /\ lastEvent = "feedbackReceived"
    /\ lastSubmission # Null
    /\ lastSubmission.formData = formData
    /\ currentStep = 2
    /\ showResults

\* C37: within a mounted Financial Data step the success flag and the error
\* message are never both set, neither is set while the extracting flag is
\* true, both are cleared when an upload starts, and the extracting flag is
\* cleared when the extraction call of the mounted instance resolves,
\* successfully or not; the flag is true exactly while that call is pending.
C37_ExtractionStatus ==
    [][/\ ~(extractionSuccess' /\ extractionError' # Null)
       /\ isExtracting' => (~extractionSuccess' /\ extractionError' = Null)
       /\ isExtracting' <=> (\E i \in DOMAIN extractions' : extractions'[i].mounted)
       /\ lastEvent' = "upload" =>
              (isExtracting' /\ ~extractionSuccess' /\ extractionError' = Null)
       /\ lastEvent' \in {"extracted", "extractionFailed"} =>
              \A i \in DOMAIN extractions :
                  (extractions' = Remove(extractions, i) /\ extractions[i].mounted) =>
                      /\ ~isExtracting'
                      /\ extractionSuccess' = (lastEvent' = "extracted")
                      /\ (extractionError' # Null) = (lastEvent' = "extractionFailed")]_vars

\* the second upload of a remounted step failed while the call of the first
\* instance is still pending
C37_Witness ==
    /\ CurrentStepComponent = "FileUpload"
    /\ lastEvent = "extractionFailed"
    /\ extractionError # Null
    /\ ~extractionSuccess
    /\ ~isExtracting
    /\ Len(extractions) = 1
    /\ ~extractions[1].mounted

====
